---- MODULE Spec2Model ----
(***************************************************************************)
(* A model of the flashcard generation engine (src/flashcard_generator.py) *)
(* and of the record types it builds (src/models.py).                      *)
(*                                                                         *)
(* Strings are sequences of tokens.  A token is one character (" ", "\n",  *)
(* ":", "Q", "{", "}", "a", ...) or a run of characters that no operation  *)
(* of the code splits ("Question", "General", "Medium", ...).  The token   *)
(* "J" is the serialized text of the JSON object the response carries: it  *)
(* begins with the character '{' and ends with the character '}'.  The     *)
(* alphabet has no double quote, so the only spans between braces that     *)
(* decode as JSON are "J" itself and an empty object.                      *)
(***************************************************************************)
EXTENDS Integers, Sequences, FiniteSets, TLC

VARIABLES
    pc,             \* position of the running call
    op,             \* the operation running: generate, translate, improve
    use_cohere,     \* FlashcardGenerator.use_cohere
    request,        \* the GenerationRequest of the running generate call
    target_language,\* the target of the running translate call
    raw,            \* the text the provider returned
    doc,            \* the JSON object the token "J" of raw stands for
    parsed,         \* flashcards as the parser returned them
    parsed_topics,  \* topics as the parser returned them
    provider_calls, \* provider invocations made by the running call
    provider_raised,\* whether the provider invocation raised
    parser_runs,    \* the parsers the running call has run, in order
    heap,           \* the lists of flashcards alive, by reference
    given,          \* the input list as it was when the call began
    result,         \* the value the call returned
    scan            \* the frame of a _parse_text_response call run statement by statement

vars == <<pc, op, use_cohere, request, target_language, raw, doc, parsed,
          parsed_topics, provider_calls, provider_raised, parser_runs, heap,
          given, result, scan>>

----------------------------------------------------------------------------
(* Python's str operations, on sequences of tokens.                        *)

NL == "\n"

IsSpace(c) == c \in {" ", NL}

RECURSIVE LStrip(_)
LStrip(s) ==
    IF s # <<>> /\ IsSpace(Head(s)) THEN LStrip(Tail(s)) ELSE s

RECURSIVE RStrip(_)
RStrip(s) ==
    IF s # <<>> /\ IsSpace(s[Len(s)]) THEN RStrip(SubSeq(s, 1, Len(s) - 1)) ELSE s

\* str.strip()
Strip(s) == RStrip(LStrip(s))

\* str.startswith(p)
StartsWith(s, p) == Len(s) >= Len(p) /\ SubSeq(s, 1, Len(p)) = p

\* str.endswith(p)
EndsWith(s, p) == Len(s) >= Len(p) /\ SubSeq(s, Len(s) - Len(p) + 1, Len(s)) = p

\* str.replace(old, ""): every non-overlapping occurrence, left to right
RECURSIVE Remove(_, _)
Remove(s, old) ==
    IF s = <<>> THEN <<>>
    ELSE IF StartsWith(s, old) THEN Remove(SubSeq(s, Len(old) + 1, Len(s)), old)
    ELSE <<Head(s)>> \o Remove(Tail(s), old)

\* str.upper(), token by token
UpperTok(c) ==
    CASE c = "a" -> "A"
      [] c = "b" -> "B"
      [] c = "Question" -> "QUESTION"
      [] c = "General" -> "GENERAL"
      [] c = "Cells" -> "CELLS"
      [] OTHER -> c

Upper(s) == [k \in 1..Len(s) |-> UpperTok(s[k])]

\* the number of characters a token stands for
TokLen(c) ==
    CASE c = "Question" -> Len(<<"Q", "u", "e", "s", "t", "i", "o", "n">>)
      [] c = "General" -> Len(<<"G", "e", "n", "e", "r", "a", "l">>)
      [] c = "Cells" -> Len(<<"C", "e", "l", "l", "s">>)
      [] OTHER -> 1

\* len(s)
RECURSIVE PyLen(_)
PyLen(s) == IF s = <<>> THEN 0 ELSE TokLen(Head(s)) + PyLen(Tail(s))

\* str.split('\n')
RECURSIVE SplitLines(_, _)
SplitLines(s, cur) ==
    IF s = <<>> THEN <<cur>>
    ELSE IF Head(s) = NL THEN <<cur>> \o SplitLines(Tail(s), <<>>)
    ELSE SplitLines(Tail(s), Append(cur, Head(s)))

Split(s) == SplitLines(s, <<>>)

\* str.find('{'): the 0-based position of the first '{', or -1
RECURSIVE FindFrom(_, _, _)
FindFrom(s, cs, k) ==
    IF k > Len(s) THEN -1
    ELSE IF s[k] \in cs THEN k - 1
    ELSE FindFrom(s, cs, k + 1)

FindOpen(s) == FindFrom(s, {"{", "J"}, 1)

\* str.rfind('}'): the 0-based position of the last '}', or -1
RECURSIVE RFindFrom(_, _, _)
RFindFrom(s, cs, k) ==
    IF k < 1 THEN -1
    ELSE IF s[k] \in cs THEN k - 1
    ELSE RFindFrom(s, cs, k - 1)

RFindClose(s) == RFindFrom(s, {"}", "J"}, Len(s))

\* s[a:b] with 0 <= a and 0 <= b
Slice(s, a, b) == SubSeq(s, a + 1, IF b > Len(s) THEN Len(s) ELSE b)

----------------------------------------------------------------------------
(* JSON values as Python sees them after json.loads.                       *)

Missing == [t |-> "missing"]
JNull == [t |-> "null"]
JStr(s) == [t |-> "str", s |-> s]
JInt(n) == [t |-> "int", n |-> n]
JList(items) == [t |-> "list", items |-> items]
JDict(entries) == [t |-> "dict", entries |-> entries]
JCard(q, a, d, tp) ==
    [t |-> "dict", question |-> q, answer |-> a, difficulty |-> d, topic |-> tp]

\* dict.get(key, default), for a key held as a field
Get(field, default) == IF field.t = "missing" THEN default ELSE field

General == <<"General">>
PyNone == <<"None">>

----------------------------------------------------------------------------
(* src/models.py                                                           *)

DifficultyLevel == {"Easy", "Medium", "Hard"}
Language == {"English", "Spanish", "French", "German", "Chinese", "Japanese"}

\* GenerationRequest.num_cards: Field(default=15, ge=5, le=50)
MinNumCards == 5

\* the largest num_cards the model requests
MaxNumCards == 6

\* the most flashcards a provider response of the model carries
MaxCards == MaxNumCards + 1

\* Flashcard(question=..., answer=..., difficulty=..., topic=..., language=...)
\* as the field validators see the arguments: question and answer are str
\* (any str, the empty one included), difficulty is a member of
\* DifficultyLevel, topic is a str or None.
FlashcardValid(q, a, d, tp) ==
    /\ q.t = "str"
    /\ a.t = "str"
    /\ d.t = "str" /\ Len(d.s) = 1 /\ d.s[1] \in DifficultyLevel
    /\ tp.t \in {"str", "null"}

Flashcard(q, a, d, tp, lang) ==
    [question |-> q.s, answer |-> a.s, difficulty |-> d.s[1],
     topic |-> IF tp.t = "null" THEN PyNone ELSE tp.s,
     subject |-> "None", language |-> lang]

\* GenerationResponse(success=False) with the error message left out
FailureNoMessage(msg) ==
    [success |-> FALSE, flashcards |-> <<>>, topics |-> <<>>,
     error_message |-> "None", raised |-> FALSE]

\* GenerationResponse(success=False, error_message=...)
FailureResponse(msg) ==
    [success |-> FALSE, flashcards |-> <<>>, topics |-> <<>>,
     error_message |-> msg, raised |-> FALSE]

\* topics: Dict[str, List[int]]
TopicsValid(topics) ==
    \A e \in 1..Len(topics) :
        /\ topics[e].v.t = "list"
        /\ \A k \in 1..Len(topics[e].v.items) : topics[e].v.items[k].t = "int"

\* GenerationResponse(success=True, flashcards=..., topics=..., processing_time=...)
SuccessResponse(flashcards, topics) ==
    [success |-> TRUE, flashcards |-> flashcards,
     topics |-> [e \in 1..Len(topics) |->
                    [k |-> topics[e].k,
                     v |-> [j \in 1..Len(topics[e].v.items) |-> topics[e].v.items[j].n]]],
     error_message |-> "None", raised |-> FALSE]

----------------------------------------------------------------------------
(* FlashcardGenerator._parse_text_response                                 *)

QPrefix == <<"Q", ":">>
QuestionPrefix == <<"Question", ":">>

\* a topic header is shorter than this many characters
HeaderMaxLen == 50

IsQuestionLine(line) == StartsWith(line, QPrefix) \/ StartsWith(line, QuestionPrefix)

IsHeaderLine(line) == EndsWith(Upper(line), <<":">>) /\ PyLen(line) < HeaderMaxLen

HasTopic(topics, name) == \E e \in 1..Len(topics) : topics[e].k = name

\* topics[name].append(idx)
AppendIndex(topics, name, idx) ==
    [e \in 1..Len(topics) |->
        IF topics[e].k = name
        THEN [k |-> name, v |-> JList(Append(topics[e].v.items, JInt(idx)))]
        ELSE topics[e]]

\* the inner while loop: the answer lines after a question line
RECURSIVE AnswerLoop(_, _, _)
AnswerLoop(lines, i, answer) ==
    IF i <= Len(lines) /\ ~IsQuestionLine(Strip(lines[i]))
    THEN LET answer_line == Strip(lines[i])
         IN  AnswerLoop(lines, i + 1,
                        IF answer_line # <<>> THEN answer \o answer_line \o <<" ">>
                        ELSE answer)
    ELSE [i |-> i, answer |-> answer]

\* the outer while loop; i is the 1-based position of the line cursor
RECURSIVE TextLoop(_, _, _, _, _)
TextLoop(lines, i, flashcards, topics, current_topic) ==
    IF i > Len(lines) THEN [flashcards |-> flashcards, topics |-> JDict(topics)]
    ELSE
      LET line == Strip(lines[i]) IN
      IF IsHeaderLine(line) THEN
        LET topic == Strip(SubSeq(line, 1, Len(line) - 1)) IN
        TextLoop(lines, i + 1, flashcards,
                 IF HasTopic(topics, topic) THEN topics
                 ELSE Append(topics, [k |-> topic, v |-> JList(<<>>)]),
                 topic)
      ELSE IF IsQuestionLine(line) THEN
        LET question == Strip(Remove(Remove(line, QPrefix), QuestionPrefix))
            ans == AnswerLoop(lines, i + 1, <<>>)
        IN  IF question # <<>> /\ Strip(ans.answer) # <<>>
            THEN TextLoop(lines, ans.i,
                          Append(flashcards,
                                 Flashcard(JStr(question), JStr(Strip(ans.answer)),
                                           JStr(<<"Medium">>), JStr(current_topic),
                                           "English")),
                          AppendIndex(topics, current_topic, Len(flashcards)),
                          current_topic)
            ELSE TextLoop(lines, ans.i, flashcards, topics, current_topic)
      ELSE TextLoop(lines, i + 1, flashcards, topics, current_topic)

_parse_text_response(response_text) ==
    TextLoop(Split(response_text), 1, <<>>,
             <<[k |-> General, v |-> JList(<<>>)]>>, General)

----------------------------------------------------------------------------
(* FlashcardGenerator._parse_llm_response                                  *)

\* json.loads(json_str): the value, or a JSONDecodeError
JsonLoads(json_str, d) ==
    IF json_str = <<"J">> THEN [raised |-> FALSE, data |-> d]
    ELSE IF /\ Len(json_str) >= 2
            /\ Head(json_str) = "{"
            /\ json_str[Len(json_str)] = "}"
            /\ \A k \in 2..(Len(json_str) - 1) : IsSpace(json_str[k])
    THEN [raised |-> FALSE, data |-> [flashcards |-> Missing, topics |-> Missing]]
    ELSE [raised |-> TRUE]

\* the body of the for loop: one element of data['flashcards'];
\* raised when .get or .strip is missing or the validators reject a field
CardRaises(card_data) ==
    \/ card_data.t # "dict"
    \/ Get(card_data.question, JStr(<<>>)).t # "str"
    \/ Get(card_data.answer, JStr(<<>>)).t # "str"
    \/ ~FlashcardValid(Get(card_data.question, JStr(<<>>)),
                       Get(card_data.answer, JStr(<<>>)),
                       Get(card_data.difficulty, JStr(<<"Medium">>)),
                       Get(card_data.topic, JStr(General)))

CardOf(card_data) ==
    Flashcard(JStr(Strip(Get(card_data.question, JStr(<<>>)).s)),
              JStr(Strip(Get(card_data.answer, JStr(<<>>)).s)),
              Get(card_data.difficulty, JStr(<<"Medium">>)),
              Get(card_data.topic, JStr(General)),
              "English")

\* the for loop left at the first element that raises
RECURSIVE ExtractCardsAbort(_, _)
ExtractCardsAbort(items, flashcards) ==
    IF items = <<>> \/ CardRaises(Head(items)) THEN flashcards
    ELSE ExtractCardsAbort(Tail(items), Append(flashcards, CardOf(Head(items))))

\* for card_data in data.get('flashcards', []): a list is walked element by
\* element; the characters of a str and the keys of a dict are walked too,
\* and none of them has .get
RECURSIVE ExtractCards(_, _)
ExtractCards(items, flashcards) ==
    IF items = <<>> THEN flashcards
    ELSE ExtractCards(Tail(items),
                      IF CardRaises(Head(items)) THEN flashcards
                      ELSE Append(flashcards, CardOf(Head(items))))

\* iterating a value of this type raises TypeError
NotIterable(v) == v.t \in {"null", "int"}

\* the elements a for loop over the value sees
IterItems(v) ==
    CASE v.t = "list" -> v.items
      [] v.t = "str" -> [k \in 1..Len(v.s) |-> JStr(<<v.s[k]>>)]
      [] v.t = "dict" -> [k \in 1..Len(v.entries) |-> JStr(v.entries[k].k)]
      [] OTHER -> <<>>

\* except json.JSONDecodeError giving up instead of running the free-text parser
ParseLlmNoFallback(response_text, d) ==
    LET json_start == FindOpen(response_text)
        json_end == RFindClose(response_text) + 1
        loaded == JsonLoads(Slice(response_text, json_start, json_end), d)
        cards == Get(loaded.data.flashcards, JList(<<>>))
    IN  IF json_start = -1 \/ json_end = 0 \/ loaded.raised \/ NotIterable(cards)
        THEN [flashcards |-> <<>>, topics |-> JDict(<<>>), fallback |-> FALSE]
        ELSE [flashcards |-> ExtractCards(IterItems(cards), <<>>),
              topics |-> Get(loaded.data.topics, JDict(<<>>)),
              fallback |-> FALSE]

\* except Exception running the free-text parser as except JSONDecodeError does
ParseLlmAlwaysFallback(response_text, d) ==
    LET json_start == FindOpen(response_text)
        json_end == RFindClose(response_text) + 1
        loaded == JsonLoads(Slice(response_text, json_start, json_end), d)
        cards == Get(loaded.data.flashcards, JList(<<>>))
    IN  IF json_start = -1 \/ json_end = 0 \/ loaded.raised \/ NotIterable(cards)
        THEN [flashcards |-> _parse_text_response(response_text).flashcards,
              topics |-> _parse_text_response(response_text).topics,
              fallback |-> TRUE]
        ELSE [flashcards |-> ExtractCards(IterItems(cards), <<>>),
              topics |-> Get(loaded.data.topics, JDict(<<>>)),
              fallback |-> FALSE]

_parse_llm_response(response_text, d) ==
    LET json_start == FindOpen(response_text)
        json_end == RFindClose(response_text) + 1
        json_str == Slice(response_text, json_start, json_end)
        loaded == JsonLoads(json_str, d)
        cards == Get(loaded.data.flashcards, JList(<<>>))
    IN  IF json_start = -1 \/ json_end = 0
        THEN \* ValueError: except Exception
             [flashcards |-> <<>>, topics |-> JDict(<<>>), fallback |-> FALSE]
        ELSE IF loaded.raised
        THEN \* except json.JSONDecodeError
             [flashcards |-> _parse_text_response(response_text).flashcards,
              topics |-> _parse_text_response(response_text).topics,
              fallback |-> TRUE]
        ELSE IF NotIterable(cards)
        THEN \* TypeError: except Exception
             [flashcards |-> <<>>, topics |-> JDict(<<>>), fallback |-> FALSE]
        ELSE [flashcards |-> ExtractCards(IterItems(cards), <<>>),
              topics |-> Get(loaded.data.topics, JDict(<<>>)),
              fallback |-> FALSE]

----------------------------------------------------------------------------
(* FlashcardGenerator._update_topics_mapping                               *)

\* idx < num_cards raises TypeError unless idx is a number
IndexRaises(indices) ==
    \/ NotIterable(indices)
    \/ \E k \in 1..Len(IterItems(indices)) : IterItems(indices)[k].t # "int"

\* [idx for idx in indices if idx < num_cards - 1]: the last position refused
RECURSIVE ValidIndicesBelowLast(_, _)
ValidIndicesBelowLast(items, num_cards) ==
    IF items = <<>> THEN <<>>
    ELSE IF Head(items).n < num_cards - 1
         THEN <<Head(items)>> \o ValidIndicesBelowLast(Tail(items), num_cards)
         ELSE ValidIndicesBelowLast(Tail(items), num_cards)

\* [idx for idx in indices if idx <= num_cards]: the bound off by one
RECURSIVE ValidIndicesInclusive(_, _)
ValidIndicesInclusive(items, num_cards) ==
    IF items = <<>> THEN <<>>
    ELSE IF Head(items).n <= num_cards
         THEN <<Head(items)>> \o ValidIndicesInclusive(Tail(items), num_cards)
         ELSE ValidIndicesInclusive(Tail(items), num_cards)

\* [idx for idx in indices if idx < num_cards]
RECURSIVE ValidIndices(_, _)
ValidIndices(items, num_cards) ==
    IF items = <<>> THEN <<>>
    ELSE IF Head(items).n < num_cards
         THEN <<Head(items)>> \o ValidIndices(Tail(items), num_cards)
         ELSE ValidIndices(Tail(items), num_cards)

\* the loop without the test "if valid_indices"
RECURSIVE UpdateLoopKeepsEmpty(_, _, _)
UpdateLoopKeepsEmpty(entries, num_cards, updated_topics) ==
    IF entries = <<>> THEN updated_topics
    ELSE UpdateLoopKeepsEmpty(
             Tail(entries), num_cards,
             Append(updated_topics,
                    [k |-> Head(entries).k,
                     v |-> JList(ValidIndices(IterItems(Head(entries).v), num_cards))]))

RECURSIVE UpdateLoop(_, _, _)
UpdateLoop(entries, num_cards, updated_topics) ==
    IF entries = <<>> THEN updated_topics
    ELSE LET valid_indices == ValidIndices(IterItems(Head(entries).v), num_cards)
         IN  UpdateLoop(Tail(entries), num_cards,
                        IF valid_indices # <<>>
                        THEN Append(updated_topics,
                                    [k |-> Head(entries).k, v |-> JList(valid_indices)])
                        ELSE updated_topics)

\* raised: topics has no .items(), or a comparison raised
UpdateRaises(topics) ==
    \/ topics.t # "dict"
    \/ \E e \in 1..Len(topics.entries) : IndexRaises(topics.entries[e].v)

_update_topics_mapping(topics, num_cards) ==
    UpdateLoop(topics.entries, num_cards, <<>>)

----------------------------------------------------------------------------
(* The inputs of the model.                                                *)

\* the longest list handed to translate_flashcards and improve_flashcards
MaxListLen == 2

RECURSIVE Rep(_, _)
Rep(c, k) == IF k <= 0 THEN <<>> ELSE <<c>> \o Rep(c, k - 1)

\* request.content
Contents == {<<>>, <<" ", NL>>, <<" ", "a", NL>>}

Requests ==
    [content : Contents, num_cards : MinNumCards..MaxNumCards,
     language : {"English", "Spanish"}]

\* a question/answer block of a free-text response: "Q: aa\nb\n"
QALines(k) == <<"Q", ":", " ">> \o Rep("a", k) \o <<NL, "b", NL>>

\* what a free-text response holds besides its question/answer blocks
TextSpecials ==
    { <<>>,
      <<"Cells", ":", NL>>,
      <<"Q", ":", " ", "b", NL>>,
      <<"Question", ":", " ", "b", NL, "a", " ", "b", NL>>,
      <<"b", NL>>,
      <<"{", NL>>,
      <<"{", "a", "}", NL>>,
      <<"{", " ", "}", NL>>,
      <<"}", " ", "{", NL>> }

RECURSIVE TextBody(_, _, _, _)
TextBody(k, n, pos, special) ==
    IF k > n THEN (IF pos = k THEN special ELSE <<>>)
    ELSE (IF pos = k THEN special ELSE <<>>) \o QALines(k)
         \o TextBody(k + 1, n, pos, special)

FreeTexts(m) ==
    { TextBody(1, n, pos, special) :
        n \in 0..m, pos \in 1..(m + 1), special \in TextSpecials }

\* an element of the 'flashcards' array that makes a card
CardElem(k) == JCard(JStr(Rep("a", k)), JStr(<<" ", "b", " ">>), Missing, Missing)

\* the odd element of a 'flashcards' array
CardSpecials ==
    { JNull,
      JCard(JNull, JStr(<<"b">>), Missing, Missing),
      JCard(JStr(<<"a">>), Missing, JStr(<<"Hard">>), JStr(<<"Cells">>)),
      JCard(JStr(<<"a">>), JStr(<<"b">>), JStr(<<"Expert">>), Missing),
      JCard(JStr(<<"a">>), JStr(<<"b">>), JStr(<<"Easy">>), JNull) }

CardArrays(m) ==
    { [k \in 1..n |-> IF k = pos THEN special ELSE CardElem(k)] :
        n \in 0..m, pos \in 0..m, special \in CardSpecials }

\* the values of the 'topics' key
TopicValues ==
    { Missing,
      JNull,
      JList(<<>>),
      JDict(<<>>),
      JDict(<<[k |-> General, v |-> JList(<<JInt(0), JInt(1), JInt(1), JInt(2)>>)],
              [k |-> <<"Cells">>, v |-> JList(<<JInt(5), JInt(3), JInt(6), JInt(9)>>)]>>),
      JDict(<<[k |-> General, v |-> JList(<<JInt(0)>>)],
              [k |-> <<"Cells">>, v |-> JList(<<JInt(6), JInt(7)>>)]>>),
      JDict(<<[k |-> <<"Cells">>, v |-> JList(<<JInt(-1), JInt(0)>>)]>>),
      JDict(<<[k |-> <<"Cells">>, v |-> JList(<<>>)]>>),
      JDict(<<[k |-> <<"Cells">>, v |-> JInt(3)]>>),
      JDict(<<[k |-> General, v |-> JList(<<JInt(0), JStr(<<"a">>)>>)]>>) }

Docs(m) ==
    { [flashcards |-> JList(cards), topics |-> tp] :
        cards \in CardArrays(m), tp \in TopicValues }
    \cup { [flashcards |-> f,
             topics |-> JDict(<<[k |-> General, v |-> JList(<<JInt(0)>>)]>>)] :
             f \in {Missing, JNull, JInt(1)} }

\* the text around the JSON object
JsonTexts ==
    { <<"J">>,
      <<"Q", ":", " ", "a", NL, "b", NL, "J", NL, "b">>,
      <<"Q", ":", " ", "a", NL, "J", "}">> }

NoDoc == [flashcards |-> Missing, topics |-> Missing]

\* what the provider returns: a text, and the JSON object its "J" stands for
Responses(m) ==
    { [text |-> t, doc |-> NoDoc] : t \in FreeTexts(m) }
    \cup { [text |-> t, doc |-> d] : t \in JsonTexts, d \in Docs(m) }

\* the cards of a list handed to translate_flashcards and improve_flashcards
InputCards ==
    { Flashcard(JStr(<<"a">>), JStr(<<"b">>), JStr(<<"Medium">>), JStr(General), "English"),
      Flashcard(JStr(<<"b">>), JStr(<<"a">>), JStr(<<"Hard">>), JStr(<<"Cells">>), "Spanish") }

InputLists == UNION { [1..n -> InputCards] : n \in 0..MaxListLen }

----------------------------------------------------------------------------
(* The state machine: one call at a time, step by step.                    *)

NoRequest == [content |-> <<>>, num_cards |-> MinNumCards, language |-> "English"]

\* the value of a call that has not returned
NoResult ==
    [success |-> FALSE, flashcards |-> <<>>, topics |-> <<>>,
     error_message |-> "None", raised |-> FALSE, ref |-> "none"]

\* a GenerationResponse as the return value of generate_flashcards
Returned(response) ==
    [success |-> response.success, flashcards |-> response.flashcards,
     topics |-> response.topics, error_message |-> response.error_message,
     raised |-> response.raised, ref |-> "none"]

\* no _parse_text_response call is run statement by statement
NoScan == [at |-> "none"]

\* a list as the return value of translate_flashcards and improve_flashcards
ReturnedList(r) ==
    [success |-> FALSE, flashcards |-> <<>>, topics |-> <<>>,
     error_message |-> "None", raised |-> FALSE, ref |-> r]

Init ==
    /\ pc = "idle"
    /\ op = "none"
    /\ use_cohere \in BOOLEAN
    /\ request = NoRequest
    /\ target_language = "English"
    /\ raw = <<>>
    /\ doc = NoDoc
    /\ parsed = <<>>
    /\ parsed_topics = JDict(<<>>)
    /\ provider_calls = 0
    /\ provider_raised = FALSE
    /\ parser_runs = <<>>
    /\ heap = [r \in {"in"} |-> <<>>]
    /\ given = <<>>
    /\ result = NoResult
    /\ scan = NoScan

\* a call begins
Begin(o) ==
    /\ pc = "idle"
    /\ op' = o
    /\ pc' = "called"
    /\ UNCHANGED <<use_cohere, scan, raw, doc, parsed, parsed_topics, provider_calls, provider_raised,
                   parser_runs, result>>

\* not request.content.strip(), with the strip left out
ContentEmpty(content) == content = <<>>

\* not request.content.strip()
ContentBlank(content) == Strip(content) = <<>>

\* except Exception as e: return GenerationResponse(success=False, ...);
\* the exception propagating to the caller instead
Propagates(msg) ==
    [success |-> FALSE, flashcards |-> <<>>, topics |-> <<>>,
     error_message |-> "None", raised |-> TRUE]

\* except Exception as e: return GenerationResponse(success=False, ...)
OnException(msg) == FailureResponse(msg)

\* generate_flashcards(request)
GenerateCall ==
    /\ Begin("generate")
    /\ \E req \in Requests : request' = req
    /\ UNCHANGED <<target_language, heap, given>>

\* if not request.content.strip(): return GenerationResponse(success=False, ...)
GenRejectBlank ==
    /\ pc = "called" /\ op = "generate"
    /\ ContentBlank(request.content)
    /\ result' = Returned(FailureResponse("No content provided for flashcard generation."))
    /\ pc' = "done"
    /\ UNCHANGED <<op, use_cohere, scan, request, target_language, raw, doc, parsed,
                   parsed_topics, provider_calls, provider_raised, parser_runs, heap, given>>

\* the provider raises and the call invokes it once more
GenProviderRetries ==
    /\ pc = "called" /\ op = "generate"
    /\ ~ContentBlank(request.content)
    /\ provider_calls < 2
    /\ provider_calls' = provider_calls + 1
    /\ provider_raised' = TRUE
    /\ UNCHANGED <<pc, op, use_cohere, scan, request, target_language, raw, doc, parsed,
                   parsed_topics, parser_runs, heap, given, result>>

\* self.llm.invoke(...) or self.cohere_gen.generate(...) raises: except Exception
GenProviderRaises ==
    /\ pc = "called" /\ op = "generate"
    /\ ~ContentBlank(request.content)
    /\ provider_calls' = provider_calls + 1
    /\ provider_raised' = TRUE
    /\ result' = Returned(OnException("Error generating flashcards: provider error"))
    /\ pc' = "done"
    /\ UNCHANGED <<op, use_cohere, scan, request, target_language, raw, doc, parsed,
                   parsed_topics, parser_runs, heap, given>>

\* self.llm.invoke(...) or self.cohere_gen.generate(...) returns a text
GenProviderReturns ==
    /\ pc = "called" /\ op = "generate"
    /\ ~ContentBlank(request.content)
    /\ provider_calls' = provider_calls + 1
    /\ provider_raised' = FALSE
    /\ \E r \in Responses(MaxCards) : raw' = r.text /\ doc' = r.doc
    /\ pc' = "parse"
    /\ UNCHANGED <<op, use_cohere, scan, request, target_language, parsed,
                   parsed_topics, parser_runs, heap, given, result>>

\* the structured parser run first under either backend
GenParserStructuredFirst(cohere, response_text, d) ==
    [flashcards |-> _parse_llm_response(response_text, d).flashcards,
     topics |-> _parse_llm_response(response_text, d).topics,
     runs |-> IF _parse_llm_response(response_text, d).fallback
              THEN <<"llm", "text">> ELSE <<"llm">>]

\* the parser generate_flashcards runs on the provider's text
GenParser(cohere, response_text, d) ==
    IF cohere
    THEN [flashcards |-> _parse_text_response(response_text).flashcards,
          topics |-> _parse_text_response(response_text).topics,
          runs |-> <<"text">>]
    ELSE [flashcards |-> _parse_llm_response(response_text, d).flashcards,
          topics |-> _parse_llm_response(response_text, d).topics,
          runs |-> IF _parse_llm_response(response_text, d).fallback
                   THEN <<"llm", "text">> ELSE <<"llm">>]

GenParse ==
    /\ pc = "parse" /\ op = "generate"
    /\ LET p == GenParser(use_cohere, raw, doc)
       IN  /\ parsed' = p.flashcards
           /\ parsed_topics' = p.topics
           /\ parser_runs' = p.runs
    /\ pc' = "process"
    /\ UNCHANGED <<op, use_cohere, scan, request, target_language, raw, doc,
                   provider_calls, provider_raised, heap, given, result>>

\* flashcards[-num_cards:]: the last cards kept instead of the first
LimitLast(flashcards, num_cards) ==
    IF Len(flashcards) > num_cards
    THEN SubSeq(flashcards, Len(flashcards) - num_cards + 1, Len(flashcards))
    ELSE flashcards

\* flashcards[:num_cards] when len(flashcards) > num_cards
Limit(flashcards, num_cards) ==
    IF Len(flashcards) > num_cards THEN SubSeq(flashcards, 1, num_cards) ELSE flashcards

\* the check for no cards, the limit, the topics update and the response
GenResponse(flashcards, topics, num_cards) ==
    IF flashcards = <<>>
    THEN FailureResponse("No valid flashcards were generated. Please try again.")
    ELSE IF UpdateRaises(topics)
    THEN OnException("Error generating flashcards: topics error")
    ELSE IF ~TopicsValid(_update_topics_mapping(topics, Len(Limit(flashcards, num_cards))))
    THEN OnException("Error generating flashcards: validation error")
    ELSE SuccessResponse(Limit(flashcards, num_cards),
                         _update_topics_mapping(topics, Len(Limit(flashcards, num_cards))))

GenFinish ==
    /\ pc = "process" /\ op = "generate"
    /\ result' = Returned(GenResponse(parsed, parsed_topics, request.num_cards))
    /\ pc' = "done"
    /\ UNCHANGED <<op, use_cohere, scan, request, target_language, raw, doc, parsed,
                   parsed_topics, provider_calls, provider_raised, parser_runs, heap, given>>

----------------------------------------------------------------------------
(* translate_flashcards and improve_flashcards.  The list handed in is     *)
(* heap["in"]; a list the call builds is heap["out"].                      *)

TargetLanguages == {"English", "Spanish", "French"}

\* except Exception: the exception propagating to the caller instead
ExceptRaises ==
    [success |-> FALSE, flashcards |-> <<>>, topics |-> <<>>,
     error_message |-> "None", raised |-> TRUE, ref |-> "none"]

\* translate_flashcards: except Exception as e: return flashcards
TransExcept == ReturnedList("in")

\* improve_flashcards: except Exception as e: return flashcards
ImpExcept == ReturnedList("in")

\* translate_flashcards(flashcards, target_language)
TranslateCall ==
    /\ Begin("translate")
    /\ \E cards \in InputLists : heap' = [r \in {"in"} |-> cards] /\ given' = cards
    /\ \E lang \in TargetLanguages : target_language' = lang
    /\ UNCHANGED request

\* if target_language == Language.ENGLISH: return flashcards
TransEnglish ==
    /\ pc = "called" /\ op = "translate"
    /\ target_language = "English"
    /\ result' = ReturnedList("in")
    /\ pc' = "done"
    /\ UNCHANGED <<op, use_cohere, scan, request, target_language, raw, doc, parsed,
                   parsed_topics, provider_calls, provider_raised, parser_runs, heap, given>>

\* self.llm is None under Cohere: self.llm.invoke raises before any provider
\* is reached, and except Exception returns flashcards
TransNoClient ==
    /\ pc = "called" /\ op = "translate"
    /\ target_language # "English"
    /\ use_cohere
    /\ result' = TransExcept
    /\ pc' = "done"
    /\ UNCHANGED <<op, use_cohere, scan, request, target_language, raw, doc, parsed,
                   parsed_topics, provider_calls, provider_raised, parser_runs, heap, given>>

\* self.llm.invoke(...) raises: except Exception returns flashcards
TransProviderRaises ==
    /\ pc = "called" /\ op = "translate"
    /\ target_language # "English"
    /\ ~use_cohere
    /\ provider_calls' = provider_calls + 1
    /\ provider_raised' = TRUE
    /\ result' = TransExcept
    /\ pc' = "done"
    /\ UNCHANGED <<op, use_cohere, scan, request, target_language, raw, doc, parsed,
                   parsed_topics, parser_runs, heap, given>>

\* self.llm.invoke(...) returns a text
TransProviderReturns ==
    /\ pc = "called" /\ op = "translate"
    /\ target_language # "English"
    /\ ~use_cohere
    /\ provider_calls' = provider_calls + 1
    /\ provider_raised' = FALSE
    /\ \E r \in Responses(MaxListLen) : raw' = r.text /\ doc' = r.doc
    /\ pc' = "parse"
    /\ UNCHANGED <<op, use_cohere, scan, request, target_language, parsed,
                   parsed_topics, parser_runs, heap, given, result>>

\* for card in flashcards: card.language = target_language, on the cards
\* handed in as well
SetLanguageAll(h, r, lang) ==
    [x \in DOMAIN h |-> [k \in 1..Len(h[x]) |-> [h[x][k] EXCEPT !.language = lang]]]

\* the loop over translated_flashcards left out
SetLanguageSkipped(h, r, lang) == h

\* for card in translated_flashcards: card.language = target_language
SetLanguage(h, r, lang) ==
    [h EXCEPT ![r] = [k \in 1..Len(h[r]) |-> [h[r][k] EXCEPT !.language = lang]]]

\* a new list on the heap
NewList(h, cards) == [r \in {"in", "out"} |-> IF r = "out" THEN cards ELSE h[r]]

\* the list translate_flashcards returns once the provider has answered
TransReturns(translated_flashcards) == "out"

\* translated_flashcards, _ = self._parse_llm_response(response.content);
\* the language of each translated card is set; return translated_flashcards
TransFinish ==
    /\ pc = "parse" /\ op = "translate"
    /\ LET p == _parse_llm_response(raw, doc)
       IN  /\ parsed' = p.flashcards
           /\ parsed_topics' = p.topics
           /\ parser_runs' = IF p.fallback THEN <<"llm", "text">> ELSE <<"llm">>
           /\ heap' = SetLanguage(NewList(heap, p.flashcards),
                                  TransReturns(p.flashcards), target_language)
           /\ result' = ReturnedList(TransReturns(p.flashcards))
    /\ pc' = "done"
    /\ UNCHANGED <<op, use_cohere, scan, request, target_language, raw, doc,
                   provider_calls, provider_raised, given>>

\* improve_flashcards(flashcards)
ImproveCall ==
    /\ Begin("improve")
    /\ \E cards \in InputLists : heap' = [r \in {"in"} |-> cards] /\ given' = cards
    /\ UNCHANGED <<request, target_language>>

\* self.llm is None under Cohere: except Exception returns flashcards
ImpNoClient ==
    /\ pc = "called" /\ op = "improve"
    /\ use_cohere
    /\ result' = ImpExcept
    /\ pc' = "done"
    /\ UNCHANGED <<op, use_cohere, scan, request, target_language, raw, doc, parsed,
                   parsed_topics, provider_calls, provider_raised, parser_runs, heap, given>>

\* self.llm.invoke(...) raises: except Exception returns flashcards
ImpProviderRaises ==
    /\ pc = "called" /\ op = "improve"
    /\ ~use_cohere
    /\ provider_calls' = provider_calls + 1
    /\ provider_raised' = TRUE
    /\ result' = ImpExcept
    /\ pc' = "done"
    /\ UNCHANGED <<op, use_cohere, scan, request, target_language, raw, doc, parsed,
                   parsed_topics, parser_runs, heap, given>>

\* self.llm.invoke(...) returns a text
ImpProviderReturns ==
    /\ pc = "called" /\ op = "improve"
    /\ ~use_cohere
    /\ provider_calls' = provider_calls + 1
    /\ provider_raised' = FALSE
    /\ \E r \in Responses(MaxListLen) : raw' = r.text /\ doc' = r.doc
    /\ pc' = "parse"
    /\ UNCHANGED <<op, use_cohere, scan, request, target_language, parsed,
                   parsed_topics, parser_runs, heap, given, result>>

\* the list improve_flashcards returns once the provider has answered
ImpReturns(improved_flashcards) == "out"

\* improved_flashcards, _ = self._parse_llm_response(response.content);
\* return improved_flashcards
ImpFinish ==
    /\ pc = "parse" /\ op = "improve"
    /\ LET p == _parse_llm_response(raw, doc)
       IN  /\ parsed' = p.flashcards
           /\ parsed_topics' = p.topics
           /\ parser_runs' = IF p.fallback THEN <<"llm", "text">> ELSE <<"llm">>
           /\ heap' = NewList(heap, p.flashcards)
           /\ result' = ReturnedList(ImpReturns(p.flashcards))
    /\ pc' = "done"
    /\ UNCHANGED <<op, use_cohere, scan, request, target_language, raw, doc,
                   provider_calls, provider_raised, given>>

----------------------------------------------------------------------------

\* the caller has the value and the frame of the call is gone
Return ==
    /\ pc = "done"
    /\ pc' = "idle"
    /\ op' = "none"
    /\ request' = NoRequest
    /\ target_language' = "English"
    /\ raw' = <<>>
    /\ doc' = NoDoc
    /\ parsed' = <<>>
    /\ parsed_topics' = JDict(<<>>)
    /\ provider_calls' = 0
    /\ provider_raised' = FALSE
    /\ parser_runs' = <<>>
    /\ heap' = [r \in {"in"} |-> <<>>]
    /\ given' = <<>>
    /\ result' = NoResult
    /\ UNCHANGED <<use_cohere, scan>>

Next ==
    \/ GenerateCall
    \/ GenRejectBlank
    \/ GenProviderRaises
    \/ GenProviderReturns
    \/ GenParse
    \/ GenFinish
    \/ TranslateCall
    \/ TransEnglish
    \/ TransNoClient
    \/ TransProviderRaises
    \/ TransProviderReturns
    \/ TransFinish
    \/ ImproveCall
    \/ ImpNoClient
    \/ ImpProviderRaises
    \/ ImpProviderReturns
    \/ ImpFinish
    \/ Return

Spec == Init /\ [][Next]_vars

----------------------------------------------------------------------------
(* FlashcardGenerator._parse_text_response run statement by statement: one *)
(* action per pass of its loops.  scan.i is the line cursor, 0-based as in *)
(* the code.  scan.q_at, scan.origin and scan.consumed are history: the     *)
(* line of the question being answered, the line that started each card,   *)
(* and the lines read so far with the branch that read them.               *)

\* the most lines a response of this specification has
MaxLines == 4

\* the lines the responses of this specification are made of
TextLines ==
    { <<>>,
      <<"Cells", ":">>,
      <<"Q", ":", " ", "a">>,
      <<"Question", ":", " ", "a", " ", "Q", ":", "b">>,
      <<"b">>,
      <<" ", "A", ":", " ", "b", " ", " ", "a", " ">>,
      <<"Q", ":", " ", "a", ":">> }

\* '\n'.join(ls)
RECURSIVE JoinLines(_)
JoinLines(ls) ==
    IF ls = <<>> THEN <<>>
    ELSE IF Len(ls) = 1 THEN ls[1]
    ELSE ls[1] \o <<NL>> \o JoinLines(Tail(ls))

\* response_text
TextInputs ==
    { JoinLines(ls) : ls \in UNION { [1..n -> TextLines] : n \in 0..MaxLines } }

\* topics = {"General": []}
InitialTopics == <<[k |-> General, v |-> JList(<<>>)]>>

\* current_topic = line[:-1].strip()
HeaderTopic(line) == Strip(SubSeq(line, 1, Len(line) - 1))

\* answer += answer_line, without the space after it
AccumulateNoSpace(answer, answer_line) ==
    IF answer_line # <<>> THEN answer \o answer_line ELSE answer

\* if answer_line: answer += answer_line + " "
Accumulate(answer, answer_line) ==
    IF answer_line # <<>> THEN answer \o answer_line \o <<" ">> ELSE answer

\* if question: the test of the answer left out
CardCompleteQuestionOnly(question, answer) == question # <<>>

\* if question and answer.strip()
CardComplete(question, answer) == question # <<>> /\ Strip(answer) # <<>>

\* Flashcard(..., topic="General", ...) whatever the current topic is
TextCardGeneral(question, answer, current_topic) ==
    Flashcard(JStr(question), JStr(Strip(answer)), JStr(<<"Medium">>),
              JStr(General), "English")

\* Flashcard(question=question, answer=answer.strip(),
\*           difficulty=DifficultyLevel.MEDIUM, topic=current_topic,
\*           subject=None, language=Language.ENGLISH)
TextCard(question, answer, current_topic) ==
    Flashcard(JStr(question), JStr(Strip(answer)), JStr(<<"Medium">>),
              JStr(current_topic), "English")

\* len(flashcards), taken after the append
AppendedIndexOneBased(flashcards) == Len(flashcards)

\* len(flashcards) - 1, taken after the append
AppendedIndex(flashcards) == Len(flashcards) - 1

\* i += 1 left out
AdvanceStuck(i) == i

\* i += 1
Advance(i) == i + 1

\* the variables of the calls of the public operations
call_vars == <<pc, op, use_cohere, request, target_language, raw, doc, parsed,
               parsed_topics, provider_calls, provider_raised, parser_runs,
               heap, given, result>>

\* no call of _parse_text_response yet
TextInit ==
    /\ pc = "idle"
    /\ op = "none"
    /\ use_cohere = FALSE
    /\ request = NoRequest
    /\ target_language = "English"
    /\ raw = <<>>
    /\ doc = NoDoc
    /\ parsed = <<>>
    /\ parsed_topics = JDict(<<>>)
    /\ provider_calls = 0
    /\ provider_raised = FALSE
    /\ parser_runs = <<>>
    /\ heap = [r \in {"in"} |-> <<>>]
    /\ given = <<>>
    /\ result = NoResult
    /\ scan = NoScan

\* _parse_text_response(response_text) is called
TextCall ==
    /\ scan.at = "none"
    /\ \E t \in TextInputs : scan' = [at |-> "entry", response_text |-> t]
    /\ UNCHANGED call_vars

\* flashcards = []; topics = {"General": []}; current_topic = "General";
\* lines = response_text.split('\n'); i = 0
TextStart ==
    /\ scan.at = "entry"
    /\ scan' = [at |-> "outer", response_text |-> scan.response_text,
                lines |-> Split(scan.response_text), i |-> 0,
                flashcards |-> <<>>, topics |-> InitialTopics,
                current_topic |-> General, question |-> <<>>, answer |-> <<>>,
                q_at |-> -1, origin |-> <<>>, consumed |-> <<>>]
    /\ UNCHANGED call_vars

\* line = lines[i].strip()
ScanLine == Strip(scan.lines[scan.i + 1])

\* the line at the cursor is read by the named branch
Read(branch) == Append(scan.consumed, [line |-> scan.i, as |-> branch])

\* line = lines[i].strip(); if line.upper().endswith(':') and len(line) < 50:
\*     ...; i += 1; continue
TextHeader ==
    /\ scan.at = "outer"
    /\ scan.i < Len(scan.lines)
    /\ \E line \in {ScanLine} :
          /\ IsHeaderLine(line)
          /\ \E topic \in {HeaderTopic(line)} :
                scan' = [scan EXCEPT
                           !.current_topic = topic,
                           !.topics = IF HasTopic(scan.topics, topic)
                                      THEN scan.topics
                                      ELSE Append(scan.topics,
                                                  [k |-> topic, v |-> JList(<<>>)]),
                           !.i = Advance(scan.i),
                           !.consumed = Read("header")]
    /\ UNCHANGED call_vars

\* if line.startswith('Q:') or line.startswith('Question:'):
\*     question = line.replace('Q:', '').replace('Question:', '').strip()
\*     i += 1; answer = ""
TextQuestion ==
    /\ scan.at = "outer"
    /\ scan.i < Len(scan.lines)
    /\ \E line \in {ScanLine} :
          /\ ~IsHeaderLine(line)
          /\ IsQuestionLine(line)
          /\ \E without_q \in {Remove(line, QPrefix)} :
             \E without_question \in {Remove(without_q, QuestionPrefix)} :
                scan' = [scan EXCEPT
                           !.at = "inner",
                           !.question = Strip(without_question),
                           !.answer = <<>>,
                           !.i = Advance(scan.i),
                           !.q_at = scan.i,
                           !.consumed = Read("question")]
    /\ UNCHANGED call_vars

\* else: i += 1
TextSkip ==
    /\ scan.at = "outer"
    /\ scan.i < Len(scan.lines)
    /\ \E line \in {ScanLine} :
          /\ ~IsHeaderLine(line)
          /\ ~IsQuestionLine(line)
    /\ scan' = [scan EXCEPT !.i = Advance(scan.i), !.consumed = Read("skipped")]
    /\ UNCHANGED call_vars

\* while i < len(lines) and not lines[i].strip().startswith('Q:')
\*       and not lines[i].strip().startswith('Question:')
AnswerContinues == scan.i < Len(scan.lines) /\ ~IsQuestionLine(ScanLine)

\* answer_line = lines[i].strip(); if answer_line: answer += ...; i += 1
TextAnswerLine ==
    /\ scan.at = "inner"
    /\ AnswerContinues
    /\ \E answer_line \in {ScanLine} :
          scan' = [scan EXCEPT
                     !.answer = Accumulate(scan.answer, answer_line),
                     !.i = Advance(scan.i),
                     !.consumed = Read("answer")]
    /\ UNCHANGED call_vars

\* if question and answer.strip(): flashcards.append(flashcard);
\*     topics[current_topic].append(len(flashcards) - 1)
TextEmit ==
    /\ scan.at = "inner"
    /\ ~AnswerContinues
    /\ CardComplete(scan.question, scan.answer)
    /\ LET flashcards == Append(scan.flashcards,
                                TextCard(scan.question, scan.answer, scan.current_topic))
       IN  scan' = [scan EXCEPT
                      !.at = "outer",
                      !.flashcards = flashcards,
                      !.topics = AppendIndex(scan.topics, scan.current_topic,
                                             AppendedIndex(flashcards)),
                      !.origin = Append(scan.origin, scan.q_at)]
    /\ UNCHANGED call_vars

\* the test "if question and answer.strip()" fails: no card
TextDrop ==
    /\ scan.at = "inner"
    /\ ~AnswerContinues
    /\ ~CardComplete(scan.question, scan.answer)
    /\ scan' = [scan EXCEPT !.at = "outer"]
    /\ UNCHANGED call_vars

\* the outer loop ends: return flashcards, topics
TextReturn ==
    /\ scan.at = "outer"
    /\ scan.i >= Len(scan.lines)
    /\ scan' = [scan EXCEPT !.at = "returned"]
    /\ UNCHANGED call_vars

TextNext ==
    \/ TextCall
    \/ TextStart
    \/ TextHeader
    \/ TextQuestion
    \/ TextSkip
    \/ TextAnswerLine
    \/ TextEmit
    \/ TextDrop
    \/ TextReturn

TextSpec == TextInit /\ [][TextNext]_vars

\* the parser runs its next statement as long as it has one
TextFairSpec == TextSpec /\ WF_vars(TextNext)

----------------------------------------------------------------------------
(* The claims.                                                             *)

Done(o) == pc = "done" /\ op = o

Failed(r) ==
    /\ ~r.success
    /\ r.error_message # "None"
    /\ r.flashcards = <<>>
    /\ r.topics = <<>>

\* C1: a generate_flashcards call whose content is empty or only whitespace
\* never invokes the provider, and returns success=false with an error message.
C1_BlankRejected ==
    (op = "generate" /\ Strip(request.content) = <<>>) =>
        /\ provider_calls = 0
        /\ pc = "done" => (~result.success /\ result.error_message # "None")

C1_Witness == Done("generate") /\ request.content = <<" ", NL>>

\* C2: when the provider call of generate_flashcards raises, the call returns
\* success=false with no flashcards, no topics and an error message, and no
\* exception reaches the caller.
C2_ProviderErrorCaught ==
    (Done("generate") /\ provider_raised) => (Failed(result) /\ ~result.raised)

C2_Witness == Done("generate") /\ provider_raised /\ provider_calls = 1

\* C3: every result of generate_flashcards has no error message when it is a
\* success, and an error message, no flashcards and no topics when it is not.
C3_ResultShape ==
    Done("generate") =>
        /\ result.success => result.error_message = "None"
        /\ ~result.success => Failed(result)

C3_Witness == Done("generate") /\ ~result.success /\ parsed # <<>>

\* C4: when the provider returns a text and parsing it yields at least one
\* flashcard, generate_flashcards returns success=true whatever the value of
\* 'topics' is.
C4_TopicsShapeNeverFails ==
    (/\ Done("generate") /\ ~provider_raised /\ provider_calls = 1
     /\ \E i \in 1..Len(parsed) :
           Strip(parsed[i].question) # <<>> /\ Strip(parsed[i].answer) # <<>>)
        => result.success

\* C5: translate_flashcards with a target other than English, when the provider
\* call raises, returns the list it was given, unmodified, and raises nothing.
C5_TranslateFailSoft ==
    (Done("translate") /\ target_language # "English" /\ provider_raised) =>
        /\ result.ref = "in"
        /\ heap[result.ref] = given
        /\ ~result.raised

C5_Witness ==
    /\ Done("translate") /\ target_language # "English" /\ provider_raised
    /\ given # <<>>

\* C6: translate_flashcards and improve_flashcards return the list they were
\* given when the parser recovers no flashcards from the provider's text; for
\* a list that is not empty they never return an empty one.
C6_NoCardsReturnsInput ==
    (pc = "done" /\ op \in {"translate", "improve"} /\ ~provider_raised
        /\ provider_calls = 1 /\ parsed = <<>> /\ given # <<>>)
        => (result.ref = "in" /\ heap[result.ref] = given)

\* C7: translate_flashcards and improve_flashcards never change the list they
\* were given nor a field of a card in it.
C7_InputNotMutated ==
    op \in {"translate", "improve"} => heap["in"] = given

C7_Witness ==
    /\ Done("translate")
    /\ result.ref = "out"
    /\ given # <<>> /\ heap["out"] # <<>>
    /\ heap["out"][1].language = target_language
    /\ given[1].language # target_language

C9_PrefixTruncation ==
    (Done("generate") /\ result.success) =>
        /\ Len(result.flashcards) =
              (IF Len(parsed) > request.num_cards THEN request.num_cards ELSE Len(parsed))
        /\ \A i \in 1..Len(result.flashcards) : result.flashcards[i] = parsed[i]
        /\ 1 <= Len(result.flashcards)
        /\ Len(result.flashcards) <= request.num_cards

C9_Witness ==
    Done("generate") /\ result.success /\ Len(parsed) > request.num_cards

\* C10: after a parsed list longer than num_cards is cut to num_cards, no topic
\* of the result lists an index >= num_cards and no topic has an empty list.
C10_TruncatedTopics ==
    (Done("generate") /\ result.success /\ Len(parsed) > request.num_cards) =>
        \A e \in 1..Len(result.topics) :
            /\ result.topics[e].v # <<>>
            /\ \A k \in 1..Len(result.topics[e].v) :
                  result.topics[e].v[k] < request.num_cards

C10_Witness ==
    /\ Done("generate") /\ result.success /\ Len(parsed) > request.num_cards
    /\ result.topics # <<>>
    /\ Len(result.topics) < Len(parsed_topics.entries)
    /\ \E e \in 1..Len(parsed_topics.entries) :
          \E k \in 1..Len(parsed_topics.entries[e].v.items) :
              parsed_topics.entries[e].v.items[k].n = request.num_cards

\* the span of the text from its first '{' to its last '}'
JsonSpan == Slice(raw, FindOpen(raw), RFindClose(raw) + 1)

\* the structured parser has run on raw
LlmParsed == pc \in {"process", "done"} /\ parser_runs # <<>> /\ parser_runs[1] = "llm"

\* the structured parser has run and the span it decoded is the JSON object doc
DocParsed == LlmParsed /\ FindOpen(raw) # -1 /\ JsonSpan = <<"J">>

\* C11: in a successful result of generate_flashcards every index of every
\* topic list is a position of the returned flashcard list: 0 <= i < len.
C11_IndicesInRange ==
    (/\ Done("generate") /\ result.success
     /\ \A i \in 1..Len(result.flashcards) :
           Strip(result.flashcards[i].answer) # <<>>) =>
        \A e \in 1..Len(result.topics) :
            \A k \in 1..Len(result.topics[e].v) :
                /\ 0 <= result.topics[e].v[k]
                /\ result.topics[e].v[k] < Len(result.flashcards)

\* C12: every flashcard generate_flashcards returns has a question and an
\* answer that are not blank after trimming.
C12_CardsNotBlank ==
    (Done("generate") /\ result.success) =>
        \A i \in 1..Len(result.flashcards) :
            /\ Strip(result.flashcards[i].question) # <<>>
            /\ Strip(result.flashcards[i].answer) # <<>>

\* an element of the 'flashcards' array that is an object whose question and
\* answer are str or absent, with a str or absent topic and difficulty
CardShaped(e) ==
    /\ e.t = "dict"
    /\ e.question.t \in {"str", "missing"}
    /\ e.answer.t \in {"str", "missing"}
    /\ e.topic.t \in {"str", "null", "missing"}
    /\ e.difficulty.t \in {"str", "missing"}

\* C13: the structured parser emits a card for every element whose
\* 'difficulty' is missing or is a string outside Easy, Medium, Hard, and the
\* card has difficulty Medium: no such element is discarded.
C13_UnknownDifficultyKept ==
    (DocParsed /\ doc.flashcards.t = "list") =>
        LET kept == SelectSeq(doc.flashcards.items, CardShaped)
        IN  /\ Len(parsed) = Len(kept)
            /\ \A i \in 1..Len(kept) :
                  (\/ kept[i].difficulty.t = "missing"
                   \/ kept[i].difficulty.s[1] \notin DifficultyLevel)
                      => parsed[i].difficulty = "Medium"

\* the structured parser met a JSONDecodeError on the span of raw
DecodeFailed ==
    /\ FindOpen(raw) # -1
    /\ RFindClose(raw) # -1
    /\ JsonLoads(JsonSpan, doc).raised

\* a parser has run in the running generate_flashcards call
GenParsed == op = "generate" /\ pc \in {"process", "done"} /\ parser_runs # <<>>

C15_NoBraceFallsBack ==
    (LlmParsed /\ (FindOpen(raw) = -1 \/ RFindClose(raw) = -1)) =>
        parsed = _parse_text_response(raw).flashcards

\* C16: on a text whose span from the first '{' to the last '}' is not valid
\* JSON the structured parser returns what the free-text parser returns for
\* the same text.
C16_DecodeErrorFallsBack ==
    (LlmParsed /\ DecodeFailed) =>
        /\ parser_runs = <<"llm", "text">>
        /\ parsed = _parse_text_response(raw).flashcards
        /\ parsed_topics = _parse_text_response(raw).topics

C16_Witness ==
    /\ LlmParsed /\ DecodeFailed
    /\ FindOpen(raw) < RFindClose(raw)
    /\ Len(parsed) >= 2
    /\ parsed_topics.entries[1].v.items # <<>>

\* a card element whose question and answer are strings that are not blank
NotBlankElem(e) ==
    /\ e.t = "dict"
    /\ e.question.t = "str" /\ Strip(e.question.s) # <<>>
    /\ e.answer.t = "str" /\ Strip(e.answer.s) # <<>>

\* C17: from a JSON object {flashcards: [...], topics: {...}} whose elements
\* all have a question and an answer that are not blank, with text around it,
\* the structured parser returns one card per element, in order, with Medium
\* for a missing difficulty and "General" for a missing topic, and the topics
\* as they are.
C17_WellFormedRecovered ==
    (/\ DocParsed
     /\ doc.flashcards.t = "list" /\ doc.topics.t = "dict"
     /\ \A k \in 1..Len(doc.flashcards.items) : NotBlankElem(doc.flashcards.items[k])) =>
        /\ Len(parsed) = Len(doc.flashcards.items)
        /\ \A k \in 1..Len(parsed) :
              LET e == doc.flashcards.items[k]
              IN  /\ parsed[k].question = Strip(e.question.s)
                  /\ parsed[k].answer = Strip(e.answer.s)
                  /\ e.difficulty.t = "missing" => parsed[k].difficulty = "Medium"
                  /\ e.topic.t = "missing" => parsed[k].topic = General
        /\ parsed_topics = doc.topics

\* construction of a card from the element succeeds
Constructs(e) == ~CardRaises(e)

\* C18: an element of the 'flashcards' array whose construction fails is
\* skipped and the batch goes on: the cards returned are those of the other
\* elements, in their order.
C18_BadElementSkipped ==
    (DocParsed /\ doc.flashcards.t = "list") =>
        LET good == SelectSeq(doc.flashcards.items, Constructs)
        IN  /\ Len(parsed) = Len(good)
            /\ \A i \in 1..Len(good) : parsed[i] = CardOf(good[i])

C18_Witness ==
    /\ DocParsed /\ doc.flashcards.t = "list"
    /\ Len(doc.flashcards.items) >= 3
    /\ doc.flashcards.items[2] = JNull
    /\ Len(parsed) = Len(doc.flashcards.items) - 1

\* C19: when the span decodes as JSON and 'flashcards' is null or a number,
\* the structured parser returns no flashcards and no topics, and the
\* free-text parser does not run.
C19_ExtractionFailureEmpty ==
    (DocParsed /\ doc.flashcards.t \in {"null", "int"}) =>
        /\ parsed = <<>>
        /\ parsed_topics = JDict(<<>>)
        /\ parser_runs = <<"llm">>

C19_Witness ==
    /\ DocParsed /\ doc.flashcards.t = "null"
    /\ doc.topics.t = "dict" /\ doc.topics.entries # <<>>
    /\ _parse_text_response(raw).flashcards # <<>>

\* the indices of a list that are below n, in their order
Below(items, n) ==
    LET Small(x) == x.n < n IN SelectSeq(items, Small)

\* the topics of a map whose list has an index below n, in their order
Surviving(entries, n) ==
    LET Lives(e) == Below(e.v.items, n) # <<>> IN SelectSeq(entries, Lives)

\* C20: _update_topics_mapping(topics, n) returns, for each topic, the list
\* of its indices that are below n, in order and with duplicates, and holds
\* a topic exactly when that list is not empty.
C20_Reconciled ==
    (Done("generate") /\ result.success) =>
        LET n == Len(result.flashcards)
            live == Surviving(parsed_topics.entries, n)
        IN  /\ Len(result.topics) = Len(live)
            /\ \A e \in 1..Len(live) :
                  /\ result.topics[e].k = live[e].k
                  /\ Len(result.topics[e].v) = Len(Below(live[e].v.items, n))
                  /\ \A j \in 1..Len(result.topics[e].v) :
                        result.topics[e].v[j] = Below(live[e].v.items, n)[j].n

C20_Witness ==
    /\ Done("generate") /\ result.success
    /\ Len(result.topics) = 2
    /\ result.topics[1].v = <<0, 1, 1, 2>>
    /\ result.topics[2].v = <<5, 3>>

\* every index of the map is below n and no topic has an empty list
AlreadyValid(entries, n) ==
    \A e \in 1..Len(entries) :
        /\ entries[e].v.items # <<>>
        /\ \A k \in 1..Len(entries[e].v.items) : entries[e].v.items[k].n < n

\* C21: reconciling the reconciled map against the same count gives the
\* reconciled map again, and a map whose indices are all below the count and
\* whose lists are all non-empty is returned as it is.
C21_ReconcileIdempotent ==
    (Done("generate") /\ result.success) =>
        LET n == Len(result.flashcards)
            once == _update_topics_mapping(parsed_topics, n)
        IN  /\ result.topics = SuccessResponse(result.flashcards, once).topics
            /\ _update_topics_mapping(JDict(once), n) = once
            /\ AlreadyValid(parsed_topics.entries, n) => once = parsed_topics.entries

C21_Witness ==
    /\ Done("generate") /\ result.success
    /\ parsed_topics.entries # <<>>
    /\ Len(result.flashcards) >= 2
    /\ AlreadyValid(parsed_topics.entries, Len(result.flashcards))
    /\ \E e \in 1..Len(result.topics) :
          \E k \in 1..Len(result.topics[e].v) :
              result.topics[e].v[k] = Len(result.flashcards) - 1

\* _parse_text_response has returned
TextReturned == scan.at = "returned"

\* the k-th line of the response, trimmed; k counts from 1
Line(k) == Strip(scan.lines[k])

\* the lines that start with 'Q:' or 'Question:'
QuestionLines == {k \in 1..Len(scan.lines) : IsQuestionLine(Line(k))}

\* the first question line after line k, or the line after the last one
NextQuestion(k) ==
    IF \E j \in QuestionLines : j > k
    THEN CHOOSE j \in QuestionLines : j > k /\ \A h \in QuestionLines : h > k => j <= h
    ELSE Len(scan.lines) + 1

\* the response is question lines that do not end with ':', each followed by
\* at least one non-blank answer line, and it has no topic-header line
WellFormedPairs ==
    /\ \A k \in 1..Len(scan.lines) : ~IsHeaderLine(Line(k))
    /\ \A k \in QuestionLines :
          /\ ~EndsWith(Line(k), <<":">>)
          /\ \E j \in (k + 1)..(NextQuestion(k) - 1) : Line(j) # <<>>
    /\ \A k \in 1..(NextQuestion(0) - 1) : Line(k) = <<>>

\* C22: from n question lines, each followed by at least one non-blank answer
\* line, with no topic-header line, the free-text parser returns n cards in
\* the order of their question lines, each with topic "General" and
\* difficulty Medium, and topics = {"General": [0, ..., n-1]}.
C22_PairsAllGeneral ==
    (TextReturned /\ WellFormedPairs) =>
        LET n == Cardinality(QuestionLines) IN
        /\ Len(scan.flashcards) = n
        /\ \A c \in 1..n :
              /\ scan.flashcards[c].topic = General
              /\ scan.flashcards[c].difficulty = "Medium"
              /\ scan.origin[c] + 1 \in QuestionLines
              /\ Cardinality({k \in QuestionLines : k < scan.origin[c] + 1}) = c - 1
        /\ scan.topics = <<[k |-> General, v |-> JList([c \in 1..n |-> JInt(c - 1)])]>>

C22_Witness ==
    /\ TextReturned /\ WellFormedPairs
    /\ Cardinality(QuestionLines) >= 2
    /\ scan.flashcards[1].question # scan.flashcards[2].question

\* the lines that end with ':' and are shorter than 50 characters
HeaderLines == {k \in 1..Len(scan.lines) : IsHeaderLine(Line(k))}

\* the cards started after line k and before the next header line
CardsUnder(k) ==
    {c \in 1..Len(scan.flashcards) :
        /\ scan.origin[c] + 1 > k
        /\ \A h \in HeaderLines : ~(k < h /\ h < scan.origin[c] + 1)}

\* C23: every line that ends with ':' and is shorter than 50 characters is a
\* topic header wherever it stands: its name is in the topics map, and every
\* card started after it and before the next such line has that topic and is
\* listed under it.
C23_HeaderAnywhere ==
    TextReturned =>
        \A k \in HeaderLines :
            /\ HasTopic(scan.topics, HeaderTopic(Line(k)))
            /\ \A c \in CardsUnder(k) :
                  /\ scan.flashcards[c].topic = HeaderTopic(Line(k))
                  /\ \E e \in 1..Len(scan.topics) :
                        /\ scan.topics[e].k = HeaderTopic(Line(k))
                        /\ \E j \in 1..Len(scan.topics[e].v.items) :
                              scan.topics[e].v.items[j] = JInt(c - 1)

\* the line without the prefix it starts with
WithoutLeadingPrefix(line) ==
    IF StartsWith(line, QPrefix) THEN SubSeq(line, Len(QPrefix) + 1, Len(line))
    ELSE SubSeq(line, Len(QuestionPrefix) + 1, Len(line))

\* C24: the question of a card is its question line, trimmed, without the
\* prefix it starts with, trimmed again: a later 'Q:' or 'Question:' in the
\* line stays in the question.
C24_OnlyLeadingPrefix ==
    TextReturned =>
        \A c \in 1..Len(scan.flashcards) :
            scan.flashcards[c].question =
                Strip(WithoutLeadingPrefix(Line(scan.origin[c] + 1)))

\* the non-blank lines among lines a..b, trimmed, each followed by one space
RECURSIVE SpacedLines(_, _)
SpacedLines(a, b) ==
    IF a > b THEN <<>>
    ELSE (IF Line(a) # <<>> THEN Line(a) \o <<" ">> ELSE <<>>) \o SpacedLines(a + 1, b)

\* the lines strictly between the question line of card c and the next line
\* that starts with 'Q:' or 'Question:', joined by single spaces
AnswerBlock(c) ==
    LET q == scan.origin[c] + 1
        joined == SpacedLines(q + 1, NextQuestion(q) - 1)
    IN  SubSeq(joined, 1, Len(joined) - 1)

\* C25: the answer of a card is the trimmed non-blank lines strictly between
\* its question line and the next line starting with 'Q:' or 'Question:' (or
\* the end of the input), joined by single spaces with no space before or
\* after; a line ending with ':' and a leading 'A:' are part of the answer.
C25_AnswerBlockJoined ==
    TextReturned =>
        \A c \in 1..Len(scan.flashcards) :
            scan.flashcards[c].answer = AnswerBlock(c)

C25_Witness ==
    /\ TextReturned
    /\ \E c \in 1..Len(scan.flashcards) :
          LET q == scan.origin[c] + 1 IN
          /\ NextQuestion(q) - q >= 4
          /\ \E j \in (q + 1)..(NextQuestion(q) - 1) : IsHeaderLine(Line(j))
          /\ \E j \in (q + 1)..(NextQuestion(q) - 1) : StartsWith(Line(j), <<"A", ":">>)
          /\ \E j \in (q + 1)..(NextQuestion(q) - 1) : Line(j) = <<>>

\* the parser is inside its loops, before and after the step
Scanning == scan.at \in {"outer", "inner"} /\ scan'.at \in {"outer", "inner", "returned"}

\* one step of the parser, as C26 has it
EmitStep ==
    Scanning =>
        IF scan'.flashcards # scan.flashcards
        THEN LET card == scan'.flashcards[Len(scan'.flashcards)] IN
             /\ scan'.flashcards = Append(scan.flashcards, card)
             /\ card.question = scan.question /\ Strip(card.question) # <<>>
             /\ card.answer = Strip(scan.answer) /\ Strip(card.answer) # <<>>
             /\ card.difficulty = "Medium"
             /\ HasTopic(scan.topics, scan.current_topic)
             /\ scan'.topics =
                   AppendIndex(scan.topics, scan.current_topic, Len(scan.flashcards))
        ELSE /\ \A e \in 1..Len(scan.topics) : scan'.topics[e] = scan.topics[e]
             /\ \A e \in (Len(scan.topics) + 1)..Len(scan'.topics) :
                   scan'.topics[e].v = JList(<<>>)
             /\ (scan.at = "inner" /\ scan'.at = "outer") =>
                   (scan.question = <<>> \/ Strip(scan.answer) = <<>>)

\* C26: the free-text parser appends a card only when its question and its
\* answer are not blank; the card has difficulty Medium, and at that moment
\* its 0-based position is appended to the list of the current topic; a
\* question without answer lines gives no card and no index.
C26_EmitOnlyComplete == [][EmitStep]_vars

C26_Witness ==
    /\ TextReturned
    /\ \E c \in 1..Len(scan.flashcards) : scan.flashcards[c].topic # General
    /\ \E k \in 1..Len(scan.consumed) :
          /\ scan.consumed[k].as = "question"
          /\ \A c \in 1..Len(scan.origin) : scan.origin[c] # scan.consumed[k].line
          /\ \E c \in 1..Len(scan.origin) : scan.origin[c] > scan.consumed[k].line

\* a step is a pass of the outer loop or of the inner loop
LoopPass ==
    \/ scan.at = "outer" /\ scan'.at # "returned"
    \/ scan.at = "inner" /\ scan'.at = "inner"

\* the cursor never goes back, and goes forward in every pass of a loop
CursorStep ==
    Scanning =>
        /\ scan'.lines = scan.lines
        /\ scan'.i >= scan.i
        /\ scan'.i <= Len(scan.lines)
        /\ LoopPass => scan'.i > scan.i

\* the lines before the cursor were read once each, in order, and at the
\* return every line was read
ConsumedOnce ==
    scan.at \in {"outer", "inner", "returned"} =>
        /\ Len(scan.consumed) = scan.i
        /\ \A k \in 1..Len(scan.consumed) :
              /\ scan.consumed[k].line = k - 1
              /\ scan.consumed[k].as \in {"header", "question", "answer", "skipped"}
        /\ scan.at = "returned" => scan.i = Len(scan.lines)

\* C27: _parse_text_response terminates on every input: the line cursor goes
\* forward in every pass of the outer and of the inner loop and never back,
\* and every line is read exactly once, as a header, a question line, an
\* answer line or a skipped line.
C27_Terminates == [](ConsumedOnce) /\ [][CursorStep]_vars /\ <>TextReturned

C27_Witness ==
    /\ TextReturned
    /\ Len(scan.lines) = MaxLines
    /\ \A b \in {"header", "question", "answer", "skipped"} :
          \E k \in 1..Len(scan.consumed) : scan.consumed[k].as = b

\* the places (topic entry, place in its list) where position p is listed
Listings(p) ==
    {<<e, j>> \in (1..Len(scan.topics)) \X (1..MaxLines) :
        /\ j <= Len(scan.topics[e].v.items)
        /\ scan.topics[e].v.items[j] = JInt(p)}

\* C28: in the output of _parse_text_response the index lists of the topics
\* hold every card position 0..len(flashcards)-1 exactly once and nothing
\* else, every list is strictly increasing, and position i is listed under
\* topic T exactly when flashcards[i].topic is T.
C28_TopicsPartition ==
    TextReturned =>
        /\ \A p \in 0..(Len(scan.flashcards) - 1) : Cardinality(Listings(p)) = 1
        /\ \A e \in 1..Len(scan.topics) :
              LET items == scan.topics[e].v.items IN
              /\ Len(items) <= MaxLines
              /\ \A j \in 1..Len(items) :
                    /\ 0 <= items[j].n /\ items[j].n < Len(scan.flashcards)
                    /\ j > 1 => items[j - 1].n < items[j].n
                    /\ scan.flashcards[items[j].n + 1].topic = scan.topics[e].k
              /\ \A d \in 1..Len(scan.topics) :
                    scan.topics[d].k = scan.topics[e].k => d = e
        /\ \A c \in 1..Len(scan.flashcards) :
              \E e \in 1..Len(scan.topics) :
                  /\ scan.topics[e].k = scan.flashcards[c].topic
                  /\ \E j \in 1..Len(scan.topics[e].v.items) :
                        scan.topics[e].v.items[j] = JInt(c - 1)

C28_Witness ==
    /\ TextReturned
    /\ Len(scan.topics) >= 2
    /\ scan.topics[1].v.items = <<>>
    /\ \E c \in 1..Len(scan.flashcards) : scan.flashcards[c].topic = <<"Cells">>

\* C29: in a successful result obtained through the structured parser, an
\* index i listed under a topic points at the card made from the element at
\* position i of the provider's 'flashcards' array: skipped elements do not
\* shift the cards under the provider's indices.
C29_IndicesKeepTheirCard ==
    (/\ Done("generate") /\ result.success
     /\ DocParsed /\ doc.flashcards.t = "list") =>
        \A e \in 1..Len(result.topics) :
            \A k \in 1..Len(result.topics[e].v) :
                LET i == result.topics[e].v[k] IN
                (0 <= i /\ i < Len(result.flashcards)) =>
                    /\ i < Len(doc.flashcards.items)
                    /\ Constructs(doc.flashcards.items[i + 1])
                    /\ result.flashcards[i + 1] = CardOf(doc.flashcards.items[i + 1])

\* every card of the list has the language
AllIn(cards, lang) == \A k \in 1..Len(cards) : cards[k].language = lang

====
